---- MODULE Spec2Model ----
(***************************************************************************)
(* Fixed-point Elo rating update of src/src/elo.rs.                        *)
(*                                                                         *)
(* Every quantity of the source is a u64.  The transcendental kernel       *)
(* (fp_exp, fp_exp_int, fp_pow10, expected_score) is modelled with natural *)
(* numbers: for rating differences up to MaxDiff every intermediate stays  *)
(* below 2^31, so no u64 operation in it can overflow.  The two            *)
(* subtractions of elo can leave the u64 range for small ratings; they are *)
(* modelled on 64-bit words (four 16-bit limbs) together with the build's  *)
(* overflow policy: with overflow checks the operation panics, without     *)
(* them it wraps modulo 2^64.                                              *)
(***************************************************************************)
EXTENDS Integers, Naturals, Sequences, FiniteSets, TLC

VARIABLES
    player_one,       \* player_one.rating, argument of elo
    player_two,       \* player_two.rating, argument of elo
    outcome,          \* argument of elo: "WIN", "LOSS", "DRAW"
    k,                \* config.k
    overflow_checks,  \* build profile: TRUE = arithmetic overflow panics
    pc,               \* position inside elo / fp_exp
    expected,         \* local `expected` of elo
    points,           \* local `outcome` of elo (chess points)
    one_new_elo,      \* local `one_new_elo` of elo, a u64 word
    two_new_elo,      \* local `two_new_elo` of elo, a u64 word
    x,                \* argument of fp_exp
    fp_ret            \* value returned by fp_exp

vars == <<player_one, player_two, outcome, k, overflow_checks, pc,
          expected, points, one_new_elo, two_new_elo, x, fp_ret>>

----------------------------------------------------------------------------
(* Constants of elo.rs *)

LN10 == 2358
E == 2784
PREC == 10

(* Bounds of the model *)

MaxRating == 2300
MaxDiff == 1000

PlayerOneRatings == {0, 16, 500, 600, 1000, 2251}
Ks == {1, 16, 20, 32}
Outcomes == {"WIN", "LOSS", "DRAW"}

----------------------------------------------------------------------------
(* Shifts on values that stay far below 2^64 *)

Shl(v, n) == v * (2 ^ n)
Shr(v, n) == v \div (2 ^ n)

----------------------------------------------------------------------------
(* u64 words: <<l1, l2, l3, l4>>, value l1 + l2*2^16 + l3*2^32 + l4*2^48 *)

Limb == 2 ^ 16

U64 == [1..4 -> 0..(Limb - 1)]

ToU64(n) == <<n % Limb, n \div Limb, 0, 0>>

\* a + b on 64 bits; ovf is the carry out of bit 63
U64Add(a, b) ==
    LET s1 == a[1] + b[1]
        s2 == a[2] + b[2] + (s1 \div Limb)
        s3 == a[3] + b[3] + (s2 \div Limb)
        s4 == a[4] + b[4] + (s3 \div Limb)
    IN  [v |-> <<s1 % Limb, s2 % Limb, s3 % Limb, s4 % Limb>>,
         ovf |-> s4 >= Limb]

\* a - b on 64 bits; ovf is the borrow out of bit 63
U64Sub(a, b) ==
    LET d1 == a[1] - b[1]
        d2 == a[2] - b[2] - (IF d1 < 0 THEN 1 ELSE 0)
        d3 == a[3] - b[3] - (IF d2 < 0 THEN 1 ELSE 0)
        d4 == a[4] - b[4] - (IF d3 < 0 THEN 1 ELSE 0)
    IN  [v |-> <<d1 % Limb, d2 % Limb, d3 % Limb, d4 % Limb>>,
         ovf |-> d4 < 0]

\* a << n for n < 16: bits shifted out of bit 63 are dropped, never a panic
U64Shl(a, n) ==
    LET hi == 2 ^ (16 - n)
        lo == 2 ^ n
    IN  <<(a[1] % hi) * lo,
          (a[2] % hi) * lo + (a[1] \div hi),
          (a[3] % hi) * lo + (a[2] \div hi),
          (a[4] % hi) * lo + (a[3] \div hi)>>

\* a >> n for n < 16
U64Shr(a, n) ==
    LET lo == 2 ^ n
        hi == 2 ^ (16 - n)
    IN  <<(a[1] \div lo) + (a[2] % lo) * hi,
          (a[2] \div lo) + (a[3] % lo) * hi,
          (a[3] \div lo) + (a[4] % lo) * hi,
          a[4] \div lo>>

\* a <= b as unsigned 64-bit numbers
U64Le(a, b) ==
    \/ a[4] < b[4]
    \/ a[4] = b[4] /\ a[3] < b[3]
    \/ a[4] = b[4] /\ a[3] = b[3] /\ a[2] < b[2]
    \/ a[4] = b[4] /\ a[3] = b[3] /\ a[2] = b[2] /\ a[1] <= b[1]

----------------------------------------------------------------------------
(* Fixed-point core *)

\* Variant of fp_exp_loop: the term is not divided by i (x^i instead of x^i/i!)
RECURSIVE fp_exp_loop_no_factorial(_, _, _, _)
fp_exp_loop_no_factorial(xx, i, term, result) ==
    IF i > 10 THEN result
    ELSE LET t == Shr(term * xx, PREC)
             r == result + t
         IN  IF t = 0 THEN r
             ELSE fp_exp_loop_no_factorial(xx, i + 1, t, r)

RECURSIVE fp_exp_loop(_, _, _, _)
fp_exp_loop(xx, i, term, result) ==
    IF i > 10 THEN result
    ELSE LET t == Shr(term * xx, PREC) \div i
             r == result + t
         IN  IF t = 0 THEN r ELSE fp_exp_loop(xx, i + 1, t, r)

\* Variant of fp_exp: the sum starts at 0 instead of 1.0
fp_exp_from_zero(xx) == fp_exp_loop(xx, 1, Shl(1, PREC), 0)

fp_exp(xx) == fp_exp_loop(xx, 1, Shl(1, PREC), Shl(1, PREC))

RECURSIVE fp_exp_int(_)
fp_exp_int(n) ==
    IF n = 0 THEN Shl(1, PREC)
    ELSE Shr(fp_exp_int(n - 1) * E, PREC)

fp_pow10(xx) ==
    LET exponent == Shr(xx * LN10, PREC)
        e1 == Shr(exponent, PREC)
        e2 == exponent - Shl(e1, PREC)
    IN  Shr(fp_exp_int(e1) * fp_exp(e2), PREC)

----------------------------------------------------------------------------
(* Outcome model and expected score *)

\* Variant of to_chess_points: a draw counts a quarter point
to_chess_points_quarter_draw(o) ==
    CASE o = "WIN" -> Shl(1, PREC)
      [] o = "DRAW" -> Shl(1, PREC - 2)
      [] o = "LOSS" -> 0

\* Variant of to_chess_points: a win counts two points
to_chess_points_double_win(o) ==
    CASE o = "WIN" -> Shl(1, PREC + 1)
      [] o = "DRAW" -> Shl(1, PREC - 1)
      [] o = "LOSS" -> 0

to_chess_points(o) ==
    CASE o = "WIN" -> Shl(1, PREC)
      [] o = "DRAW" -> Shl(1, PREC - 1)
      [] o = "LOSS" -> 0

\* Variant of expected_score: the higher rated player is not given the
\* complement
expected_score_no_complement(r1, r2) ==
    LET diff == IF r1 >= r2 THEN r1 - r2 ELSE r2 - r1
    IN  Shl(1, PREC + PREC)
          \div (Shl(1, PREC) + fp_pow10(Shl(diff, PREC) \div 400))

\* Variant of expected_score: the final test compares the wrong way round
expected_score_swapped_test(r1, r2) ==
    LET diff == IF r1 >= r2 THEN r1 - r2 ELSE r2 - r1
        exp_one == Shl(1, PREC + PREC)
                     \div (Shl(1, PREC) + fp_pow10(Shl(diff, PREC) \div 400))
    IN  IF r1 >= r2 THEN exp_one ELSE Shl(1, PREC) - exp_one

expected_score(r1, r2) ==
    LET diff == IF r1 >= r2 THEN r1 - r2 ELSE r2 - r1
        exp_one == Shl(1, PREC + PREC)
                     \div (Shl(1, PREC) + fp_pow10(Shl(diff, PREC) \div 400))
    IN  IF r2 >= r1 THEN exp_one ELSE Shl(1, PREC) - exp_one

----------------------------------------------------------------------------
(* elo, line by line *)

\* Variant of OneNew: k multiplies the expected score only
OneNew_unscaled_outcome(r1, kk, pts, ex) ==
    LET sum == U64Add(U64Shl(ToU64(r1), PREC), ToU64(pts))
        dif == U64Sub(sum.v, ToU64(kk * ex))
    IN  [v |-> U64Shr(dif.v, PREC), ovf |-> sum.ovf \/ dif.ovf]

\* line 210:
\* ((player_one.rating << PREC) + config.k * outcome - config.k * expected) >> PREC
\* v is the word computed, ovf tells whether the + or the - left the u64 range
OneNew(r1, kk, pts, ex) ==
    LET sum == U64Add(U64Shl(ToU64(r1), PREC), ToU64(kk * pts))
        dif == U64Sub(sum.v, ToU64(kk * ex))
    IN  [v |-> U64Shr(dif.v, PREC), ovf |-> sum.ovf \/ dif.ovf]

\* line 211: player_one.rating + player_two.rating - one_new_elo
TwoNew(r1, r2, one_new) ==
    LET sum == U64Add(ToU64(r1), ToU64(r2))
        dif == U64Sub(sum.v, one_new)
    IN  [v |-> dif.v, ovf |-> sum.ovf \/ dif.ovf]

\* The whole function: what a call returns under the given overflow policy.
elo(r1, r2, o, kk, checks) ==
    LET one == OneNew(r1, kk, to_chess_points(o), expected_score(r1, r2))
        two == TwoNew(r1, r2, one.v)
    IN  [panicked |-> checks /\ (one.ovf \/ two.ovf),
         one |-> one.v,
         two |-> two.v]

Zero == ToU64(0)

TypeOK ==
    /\ player_one \in 0..MaxRating
    /\ player_two \in 0..MaxRating
    /\ outcome \in Outcomes
    /\ k \in Ks
    /\ overflow_checks \in BOOLEAN
    /\ pc \in {"elo", "scored", "one_done", "returned", "panicked",
               "fp_exp", "fp_returned"}
    /\ expected \in Nat
    /\ points \in Nat
    /\ one_new_elo \in U64
    /\ two_new_elo \in U64
    /\ x \in Nat
    /\ fp_ret \in Nat

\* A call elo(&player_one, &player_two, &outcome, &config) about to run.
Init ==
    /\ player_one \in PlayerOneRatings
    /\ player_two \in 0..MaxRating
    /\ player_one - player_two <= MaxDiff
    /\ player_two - player_one <= MaxDiff
    /\ outcome \in Outcomes
    /\ k \in Ks
    /\ overflow_checks \in BOOLEAN
    /\ pc = "elo"
    /\ expected = 0
    /\ points = 0
    /\ one_new_elo = Zero
    /\ two_new_elo = Zero
    /\ x = 0
    /\ fp_ret = 0

\* lines 207-208
Score ==
    /\ pc = "elo"
    /\ expected' = expected_score(player_one, player_two)
    /\ points' = to_chess_points(outcome)
    /\ pc' = "scored"
    /\ UNCHANGED <<player_one, player_two, outcome, k, overflow_checks,
                   one_new_elo, two_new_elo, x, fp_ret>>

\* line 210
UpdateOne ==
    /\ pc = "scored"
    /\ LET one == OneNew(player_one, k, points, expected)
       IN  IF overflow_checks /\ one.ovf
           THEN /\ pc' = "panicked"
                /\ UNCHANGED one_new_elo
           ELSE /\ pc' = "one_done"
                /\ one_new_elo' = one.v
    /\ UNCHANGED <<player_one, player_two, outcome, k, overflow_checks,
                   expected, points, two_new_elo, x, fp_ret>>

\* line 211 and the return of lines 213-220
UpdateTwo ==
    /\ pc = "one_done"
    /\ LET two == TwoNew(player_one, player_two, one_new_elo)
       IN  IF overflow_checks /\ two.ovf
           THEN /\ pc' = "panicked"
                /\ UNCHANGED two_new_elo
           ELSE /\ pc' = "returned"
                /\ two_new_elo' = two.v
    /\ UNCHANGED <<player_one, player_two, outcome, k, overflow_checks,
                   expected, points, one_new_elo, x, fp_ret>>

Next == Score \/ UpdateOne \/ UpdateTwo

Spec == Init /\ [][Next]_vars

----------------------------------------------------------------------------
(* A call fp_exp(x) with x a fraction in [0, 1) at scale 2^PREC *)

InitFpExp ==
    /\ x \in 0..(Shl(1, PREC) - 1)
    /\ fp_ret = 0
    /\ pc = "fp_exp"
    /\ player_one = 0
    /\ player_two = 0
    /\ outcome = "DRAW"
    /\ k = 32
    /\ overflow_checks = TRUE
    /\ expected = 0
    /\ points = 0
    /\ one_new_elo = Zero
    /\ two_new_elo = Zero

CallFpExp ==
    /\ pc = "fp_exp"
    /\ fp_ret' = fp_exp(x)
    /\ pc' = "fp_returned"
    /\ UNCHANGED <<player_one, player_two, outcome, k, overflow_checks,
                   expected, points, one_new_elo, two_new_elo, x>>

NextFpExp == CallFpExp

SpecFpExp == InitFpExp /\ [][NextFpExp]_vars

----------------------------------------------------------------------------
(* Properties *)

One == Shl(1, PREC)
Half == Shl(1, PREC - 1)

MaxGap == 3

Returned == pc = "returned"

\* Opponents rated a few points below player_two and still above player_one
CloserOpponents ==
    {c \in (player_one + 1)..(player_two - 1) : player_two - c <= MaxGap}

\* Rating gain of the first player, as a u64 word
Gain(new_one, old_one) == U64Sub(new_one, ToU64(old_one)).v

Mirror(o) ==
    CASE o = "WIN" -> "LOSS"
      [] o = "LOSS" -> "WIN"
      [] o = "DRAW" -> "DRAW"

\* C1: every call of elo completes without leaving the u64 range and the
\* two returned ratings add up, as integers, to the two ratings passed in.
C1_ZeroSum ==
    /\ pc # "panicked"
    /\ Returned =>
         LET s == U64Add(one_new_elo, two_new_elo)
         IN  ~s.ovf /\ s.v = ToU64(player_one + player_two)

\* C2: a WIN never lowers the first player's rating and a LOSS never
\* raises it, whatever the ratings and K.
C2_MonotonicReward ==
    Returned =>
        /\ outcome = "WIN" => U64Le(ToU64(player_one), one_new_elo)
        /\ outcome = "LOSS" => U64Le(one_new_elo, ToU64(player_one))

\* C3: the example in the documentation of elo: 600 against 711, WIN,
\* k = 32 gives 620 and 690.
C3_DocExample ==
    (Returned /\ player_one = 600 /\ player_two = 711
              /\ outcome = "WIN" /\ k = 32)
        => one_new_elo = ToU64(620) /\ two_new_elo = ToU64(690)

C5_ExpectedSymmetry ==
    pc \in {"scored", "one_done", "returned", "panicked"} =>
        LET total == expected + expected_score(player_two, player_one)
        IN  total >= One - 1 /\ total <= One + 1

C5_Witness ==
    /\ pc = "scored"
    /\ player_one > player_two
    /\ expected > Half
    /\ expected < One

\* C6: the expected score lies in [0, 1024], on the low side of 512 for the
\* lower rated player, on the high side for the higher rated one, hence
\* exactly 512 (50 percent) for equal ratings.
C6_ExpectedRange ==
    pc \in {"scored", "one_done", "returned", "panicked"} =>
        /\ expected >= 0 /\ expected <= One
        /\ player_one <= player_two => expected <= Half
        /\ player_one >= player_two => expected >= Half
        /\ player_one = player_two =>
              expected = 512 /\ Shr(expected * 100, PREC) = 50

C6_Witness ==
    /\ pc = "scored"
    /\ player_one = player_two
    /\ expected = 512

\* C7: equal ratings R, even K, R >= K: WIN gives (R + K/2, R - K/2),
\* LOSS gives (R - K/2, R + K/2), DRAW gives (R, R).
C7_EqualRatings ==
    (Returned /\ player_one = player_two /\ k % 2 = 0 /\ player_one >= k) =>
        LET r == player_one
            h == k \div 2
        IN  /\ outcome = "WIN" =>
                one_new_elo = ToU64(r + h) /\ two_new_elo = ToU64(r - h)
            /\ outcome = "LOSS" =>
                one_new_elo = ToU64(r - h) /\ two_new_elo = ToU64(r + h)
            /\ outcome = "DRAW" =>
                one_new_elo = ToU64(r) /\ two_new_elo = ToU64(r)

C7_Witness ==
    /\ Returned
    /\ player_one = 1000 /\ player_two = 1000 /\ k = 32
    /\ outcome = "WIN"
    /\ one_new_elo = ToU64(1016) /\ two_new_elo = ToU64(984)

C9_NoUnderflow ==
    (player_one >= k /\ player_two >= k) =>
        /\ pc # "panicked"
        /\ pc \in {"scored", "one_done", "returned"} =>
              /\ k * expected <= Shl(player_one, PREC) + k * points
              /\ ~OneNew(player_one, k, points, expected).ovf
        /\ pc \in {"one_done", "returned"} =>
              /\ U64Le(one_new_elo, ToU64(player_one + player_two))
              /\ ~TwoNew(player_one, player_two, one_new_elo).ovf
              /\ U64Le(ToU64(player_one - k), one_new_elo)
              /\ U64Le(one_new_elo, ToU64(player_one + k))
        /\ Returned =>
              /\ U64Le(ToU64(player_two - k), two_new_elo)
              /\ U64Le(two_new_elo, ToU64(player_two + k))

C9_Witness ==
    /\ Returned
    /\ player_one = k /\ player_two >= k
    /\ outcome = "LOSS"
    /\ ~U64Le(ToU64(player_one), one_new_elo)

\* C10: fp_exp returns what the Taylor recurrence of ten terms without
\* early exit, term = floor(term * x / (i * 1024)), returns.
RECURSIVE TaylorReference(_, _, _, _)
TaylorReference(xx, i, term, result) ==
    IF i > 10 THEN result
    ELSE LET t == (term * xx) \div (i * One)
         IN  TaylorReference(xx, i + 1, t, result + t)

C10_FpExpReference ==
    pc = "fp_returned" => fp_ret = TaylorReference(x, 1, One, One)

C10_Witness ==
    /\ pc = "fp_returned"
    /\ x = One - 1
    /\ fp_ret > 2 * One

====
